---- MODULE Spec2Model ----
(***************************************************************************)
(* A model of qpkg/Trader.py: the BackTester observation store, its two    *)
(* detectors (ins_institution_condition, ins_chart_pattern), back_test and *)
(* the minimum search of testResult.                                       *)
(*                                                                         *)
(* Strings are sequences of one-character strings, so that '_'.join and    *)
(* code[:6] are computed and not assumed.  Floats that the code derives    *)
(* by division are kept either as exact fractions <<num, den>> (chart      *)
(* pattern part) or as fixed-point integers in units of 1/Scale (back_test *)
(* ratios and statistics).                                                 *)
(***************************************************************************)
EXTENDS Integers, Sequences, FiniteSets

VARIABLES
    _test_list,   \* BackTester._test_list: sequence of <<code, date, group>>
    _code_nums,   \* BackTester._code_nums: base code -> next sequence number
    err,          \* how the last call ended: "ok" or the exception raised
    log,          \* history: <<base code, stored id>> of every successful insert
    call,         \* history: the last call, with its arguments and intermediate values
    db,           \* the history provider: <<code, date>> -> forward price list
    _result,      \* testResult._result: <<the table of back_test>>, or NoResult
    _groups,      \* testResult._groups
    _min          \* testResult._min: <<group -> <<row, column, value>>>>, or NoResult

vars == <<_test_list, _code_nums, err, log, call, db, _result, _groups, _min>>

----------------------------------------------------------------------------
(* Bounds *)

MaxIns == 4          \* inserts over the life of one BackTester
MaxChart == 4        \* bars in a chart returned by the history provider
MaxStore == 3        \* observations in the store when back_test runs
NumDays == 2         \* number_of_days passed to back_test
Scale == 10          \* fixed-point unit of the ratios of back_test: 1/Scale

----------------------------------------------------------------------------
(* Helpers on sequences and numbers *)

Range(s) == {s[i] : i \in 1..Len(s)}

Min2(a, b) == IF a <= b THEN a ELSE b

Max2(a, b) == IF a >= b THEN a ELSE b

RECURSIVE SeqSum(_)
SeqSum(s) == IF s = <<>> THEN 0 ELSE Head(s) + SeqSum(Tail(s))

RECURSIVE SeqProd(_)
SeqProd(s) == IF s = <<>> THEN 1 ELSE Head(s) * SeqProd(Tail(s))

SeqMin(s) == CHOOSE x \in Range(s) : \A y \in Range(s) : x <= y

SeqMax(s) == CHOOSE x \in Range(s) : \A y \in Range(s) : x >= y

Digit(d) == <<"0", "1", "2", "3", "4", "5", "6", "7", "8", "9">>[d + 1]

\* str(n) of a non-negative int
RECURSIVE Str(_)
Str(n) == IF n < 10 THEN <<Digit(n)>> ELSE Str(n \div 10) \o <<Digit(n % 10)>>

----------------------------------------------------------------------------
(* Input domains *)

C5930 == <<"0", "0", "5", "9", "3", "0">>

C5930x == <<"0", "0", "5", "9", "3", "0", "_", "1">>

C0660 == <<"0", "0", "0", "6", "6", "0">>

C0270 == <<"0", "0", "0", "2", "7", "0">>

Codes == {C5930, C5930x}

\* the keys of the defaultdict _code_nums that any call touches
AllCodes == {C5930, C5930x, C0660, C0270}

Dates == {1, 2}

Groups == {"A", "B"}

\* a reference that may be None is <<>> for None and <<v>> for the object v
NoResult == <<>>

NoCall == [op |-> "none"]

\* a provider that is never asked for forward prices
NoDb == <<>>

----------------------------------------------------------------------------
(* BackTester: the observation store *)

\* insert, lines 46-47: the stored code
InstanceId(nums, base) == base \o <<"_">> \o Str(nums[base])

\* insert, lines 44-45
InsertRaises(data) == Len(data) # 3

\* insert, lines 46-50: the list after a successful insert
ListAfterInsert(list, nums, data) ==
    Append(list, <<InstanceId(nums, data[1]), data[2], data[3]>>)

\* insert, line 51: the counters after a successful insert
NumsAfterInsert(nums, data) == [nums EXCEPT ![data[1]] = @ + 1]

\* list.remove(x): drops the first element equal to x
RECURSIVE ListRemove(_, _)
ListRemove(list, x) ==
    IF list = <<>> THEN <<>>
    ELSE IF Head(list) = x THEN Tail(list)
    ELSE <<Head(list)>> \o ListRemove(Tail(list), x)

\* variant (not the code): clearing the store also clears the counters
NumsAfterDeleteReset(nums) == [c \in DOMAIN nums |-> 0]

\* delete and delete_all, lines 53-60: the counters are left alone
NumsAfterDelete(nums) == nums

insert(data) ==
    /\ Len(log) < MaxIns
    /\ IF InsertRaises(data)
       THEN /\ err' = "ArgumentError"
            /\ UNCHANGED <<_test_list, _code_nums, log>>
       ELSE /\ _test_list' = ListAfterInsert(_test_list, _code_nums, data)
            /\ _code_nums' = NumsAfterInsert(_code_nums, data)
            /\ log' = Append(log, <<data[1], _test_list'[Len(_test_list')][1]>>)
            /\ err' = "ok"
    /\ call' = [op |-> "insert"]
    /\ UNCHANGED <<db, _result, _groups, _min>>

delete_all ==
    /\ _test_list' = <<>>
    /\ _code_nums' = NumsAfterDelete(_code_nums)
    /\ err' = "ok"
    /\ call' = [op |-> "delete_all"]
    /\ UNCHANGED <<log, db, _result, _groups, _min>>

\* delete(): list.pop() raises IndexError on an empty list
delete_last ==
    /\ IF _test_list = <<>>
       THEN /\ err' = "IndexError"
            /\ UNCHANGED <<_test_list, _code_nums>>
       ELSE /\ _test_list' = SubSeq(_test_list, 1, Len(_test_list) - 1)
            /\ _code_nums' = NumsAfterDelete(_code_nums)
            /\ err' = "ok"
    /\ call' = [op |-> "delete"]
    /\ UNCHANGED <<log, db, _result, _groups, _min>>

\* delete(data): list.remove(data) raises ValueError when data is not stored
delete_data(data) ==
    /\ IF data \notin Range(_test_list)
       THEN /\ err' = "ValueError"
            /\ UNCHANGED <<_test_list, _code_nums>>
       ELSE /\ _test_list' = ListRemove(_test_list, data)
            /\ _code_nums' = NumsAfterDelete(_code_nums)
            /\ err' = "ok"
    /\ call' = [op |-> "delete"]
    /\ UNCHANGED <<log, db, _result, _groups, _min>>

\* __init__
Init ==
    /\ _test_list = <<>>
    /\ _code_nums = [c \in AllCodes |-> 0]
    /\ err = "ok"
    /\ log = <<>>
    /\ call = NoCall
    /\ db = NoDb
    /\ _result = NoResult
    /\ _groups = <<>>
    /\ _min = NoResult

\* data passed to insert and delete: well-formed triples and a two-field list
InsertArgs == {<<c, d, g>> : c \in Codes, d \in Dates, g \in Groups} \cup {<<C5930, 1>>}

DeleteArgs ==
    {<<InstanceId([x \in AllCodes |-> k], c), d, g>> :
        c \in Codes, k \in 0..1, d \in Dates, g \in Groups}

Next ==
    \/ \E data \in InsertArgs : insert(data)
    \/ delete_all
    \/ delete_last
    \/ \E data \in DeleteArgs : delete_data(data)

Spec == Init /\ [][Next]_vars

----------------------------------------------------------------------------
(* C1 *)

StoreIds == [i \in 1..Len(_test_list) |-> _test_list[i][1]]

\* the number of earlier inserts of the base code of the i-th insert
EarlierInserts(i) == Cardinality({j \in 1..(i - 1) : log[j][1] = log[i][1]})

\* C1: the k-th successful insert of a base code c (k from 0, counting every
\* earlier insert of c, removed or not) stored the id c + '_' + str(k); no id
\* was issued twice, and no two stored observations share an id.
C1_SequenceNeverReused ==
    /\ \A i \in 1..Len(log) :
          log[i][2] = log[i][1] \o <<"_">> \o Str(EarlierInserts(i))
    /\ \A i, j \in 1..Len(log) : log[i][2] = log[j][2] => i = j
    /\ \A i, j \in 1..Len(_test_list) : StoreIds[i] = StoreIds[j] => i = j
    /\ \A i \in 1..Len(_test_list) : \E j \in 1..Len(log) : log[j][2] = StoreIds[i]

\* an id was issued, removed, and the same base code was inserted again
C1_Witness ==
    /\ Len(log) >= 3
    /\ log[1][1] = log[3][1]
    /\ log[2][1] = C5930x
    /\ log[1][2] \notin Range(StoreIds)
    /\ log[3][2] \in Range(StoreIds)

----------------------------------------------------------------------------
(* BackTester.ins_institution_condition *)

\* a quantity read from the chart is <<n>> for the number n and <<>> for None
NoneV == <<>>

Num(n) == <<n>>

\* Python truth value of a flow quantity: None and 0 are false
Truthy(v) == v # NoneV /\ v[1] # 0

\* fore >= th_fore, inst >= th_inst (reached with a truthy quantity only)
Geq(v, th) == v[1] >= th

\* variant (not the code): the INST branch is missing
ModeOfTwoBranches(th_fore, th_inst) ==
    IF th_fore # 0 /\ th_inst # 0 THEN "BOTH"
    ELSE IF th_fore # 0 THEN "FORE"
    ELSE "raise"

\* lines 214-218; "raise" stands for the ArgumentError branch
ModeOf(th_fore, th_inst) ==
    IF th_fore # 0 /\ th_inst # 0 THEN "BOTH"
    ELSE IF th_fore # 0 THEN "FORE"
    ELSE IF th_inst # 0 THEN "INST"
    ELSE "raise"

_compare_quantity(mode, th_fore, th_inst, fore, inst) ==
    IF mode = "BOTH"
    THEN Truthy(fore) /\ Truthy(inst) /\ Geq(fore, th_fore) /\ Geq(inst, th_inst)
    ELSE IF mode = "FORE" THEN Truthy(fore) /\ Geq(fore, th_fore)
    ELSE IF mode = "INST" THEN Truthy(inst) /\ Geq(inst, th_inst)
    ELSE FALSE

\* a bar of the chart, reduced to the fields read at lines 222-224
BarDate(c) == c[1]

BarFore(c) == c[2]

BarInst(c) == c[3]

\* lines 226-228: the run counter after one bar
NextDayCnt(day_cnt, qualifies) == IF qualifies THEN day_cnt + 1 ELSE 0

\* variant (not the code): every day of a run from the n-th on inserts
EmitsFromNthDay(day_cnt, days) == day_cnt >= days

\* line 229
Emits(day_cnt, days) == day_cnt = days

\* lines 220-230: the dates handed to insert, in scan order, from bar i on
RECURSIVE ScanFrom(_, _, _, _, _, _, _)
ScanFrom(chart, i, day_cnt, mode, th_fore, th_inst, days) ==
    IF i > Len(chart) THEN <<>>
    ELSE LET c == chart[i]
             cnt == NextDayCnt(day_cnt,
                        _compare_quantity(mode, th_fore, th_inst, BarFore(c), BarInst(c)))
         IN (IF Emits(cnt, days) THEN <<BarDate(c)>> ELSE <<>>)
                \o ScanFrom(chart, i + 1, cnt, mode, th_fore, th_inst, days)

\* the store after insert([code, date, group]) for each date in turn
RECURSIVE InsertAll(_, _, _, _)
InsertAll(st, code, dates, group) ==
    IF dates = <<>> THEN st
    ELSE LET data == <<code, Head(dates), group>>
         IN InsertAll([list |-> ListAfterInsert(st.list, st.nums, data),
                       nums |-> NumsAfterInsert(st.nums, data),
                       log  |-> Append(st.log,
                                  <<code, InstanceId(st.nums, code)>>)],
                      code, Tail(dates), group)

ins_institution_condition(code, th_fore, th_inst, days, group, chart) ==
    LET mode == ModeOf(th_fore, th_inst)
        dates == ScanFrom(chart, 1, 0, mode, th_fore, th_inst, days)
        st == InsertAll([list |-> _test_list, nums |-> _code_nums, log |-> log],
                        code, dates, group)
    IN /\ Len(log) + Len(chart) <= MaxIns
       /\ call' = [op |-> "ins_institution_condition", code |-> code,
                   th_fore |-> th_fore, th_inst |-> th_inst, days |-> days,
                   group |-> group, chart |-> chart, mode |-> mode,
                   pre_list |-> _test_list, pre_nums |-> _code_nums]
       /\ IF mode = "raise"
          THEN /\ err' = "ArgumentError"
               /\ UNCHANGED <<_test_list, _code_nums, log>>
          ELSE /\ _test_list' = st.list
               /\ _code_nums' = st.nums
               /\ log' = st.log
               /\ err' = "ok"
       /\ UNCHANGED <<db, _result, _groups, _min>>

\* flow quantities <<fore, inst>> of a bar, and the thresholds tried
Flows == {<<Num(5), Num(5)>>, <<Num(5), Num(0)>>, <<NoneV, Num(5)>>, <<Num(4), Num(5)>>}

Thresholds == {0, 5}

MaxDays == 2

\* charts of the history provider: bars dated 1, 2, ... in order
Charts ==
    UNION {[1..n -> Flows] : n \in 0..MaxChart}

MkChart(flows) ==
    [i \in 1..Len(flows) |-> <<i, flows[i][1], flows[i][2]>>]

\* the last call was an operation of the store (or there was none): `call` holds
\* one detector call, and the next one is explored from the states the store
\* operations build
AfterStoreOp == call.op \in {"none", "insert", "delete", "delete_all"}

NextInst ==
    \/ /\ AfterStoreOp
       /\ \E th_fore \in Thresholds, th_inst \in Thresholds, days \in 0..MaxDays,
             flows \in Charts :
             ins_institution_condition(C5930, th_fore, th_inst, days, "A", MkChart(flows))
    \/ \E d \in Dates : insert(<<C5930, d, "A">>)
    \/ delete_last
    \/ delete_all

SpecInst == Init /\ [][NextInst]_vars

IsInstCall == call.op = "ins_institution_condition"

\* the observations the last call appended
Appended == SubSeq(_test_list, Len(call.pre_list) + 1, Len(_test_list))

\* a qualifying day as the specification words it: every flow the mode looks at
\* is present, non-zero and at least its threshold
ClaimQualifies(c) ==
    LET okF == \E n \in 1..9 : c[2] = <<n>> /\ n >= call.th_fore
        okI == \E n \in 1..9 : c[3] = <<n>> /\ n >= call.th_inst
    IN IF call.th_fore # 0 /\ call.th_inst # 0 THEN okF /\ okI
       ELSE IF call.th_fore # 0 THEN okF
       ELSE okI

\* bar d is the n-th day of a maximal run of qualifying days
IsNthDayOfRun(d, n) ==
    /\ d - n >= 0
    /\ \A k \in (d - n + 1)..d : ClaimQualifies(call.chart[k])
    /\ d - n >= 1 => ~ClaimQualifies(call.chart[d - n])

\* the maximal runs of qualifying days, as <<first, last>>
MaximalRuns ==
    {<<a, b>> \in (1..Len(call.chart)) \X (1..Len(call.chart)) :
        /\ a <= b
        /\ \A k \in a..b : ClaimQualifies(call.chart[k])
        /\ a > 1 => ~ClaimQualifies(call.chart[a - 1])
        /\ b < Len(call.chart) => ~ClaimQualifies(call.chart[b + 1])}

\* C2: with days = n >= 1 an observation is inserted for day d iff d is the n-th
\* day of a maximal run of qualifying days: one observation per run of length
\* >= n, dated at its n-th day, none for a shorter run.
C2_OnePerRun ==
    (IsInstCall /\ err = "ok" /\ call.days >= 1) =>
        LET n == call.days
            nth == {d \in 1..Len(call.chart) : IsNthDayOfRun(d, n)}
        IN /\ _test_list = call.pre_list \o Appended
           /\ {Appended[i][2] : i \in 1..Len(Appended)} = nth
           /\ \A i, j \in 1..Len(Appended) : i < j => Appended[i][2] < Appended[j][2]
           /\ Len(Appended) =
                 Cardinality({r \in MaximalRuns : r[2] - r[1] + 1 >= n})
           /\ \A r \in MaximalRuns :
                 LET got == {i \in 1..Len(Appended) :
                                Appended[i][2] \in r[1]..r[2]}
                 IN IF r[2] - r[1] + 1 >= n
                    THEN \E i \in got : got = {i} /\ Appended[i][2] = r[1] + n - 1
                    ELSE got = {}

\* a short run, a reset, then a run longer than n: one observation, at the n-th
\* day of the second run, and nothing for the day after it
C2_Witness ==
    /\ IsInstCall /\ err = "ok" /\ call.days = 2
    /\ Len(call.chart) = 4
    /\ <<1, 1>> \in MaximalRuns /\ <<3, 4>> \in MaximalRuns
    /\ Len(Appended) = 1 /\ Appended[1][2] = 4

\* C7: the call raises ArgumentError exactly when both thresholds are zero, and
\* then the store and every sequence counter are as before the call; otherwise
\* the mode is BOTH, FORE or INST by which thresholds are nonzero.
C7_ModeSelection ==
    IsInstCall =>
        /\ (err = "ArgumentError") <=> (call.th_fore = 0 /\ call.th_inst = 0)
        /\ err \in {"ArgumentError", "ok"}
        /\ err = "ArgumentError" =>
              /\ _test_list = call.pre_list
              /\ _code_nums = call.pre_nums
        /\ (call.th_fore # 0 /\ call.th_inst # 0) => call.mode = "BOTH"
        /\ (call.th_fore # 0 /\ call.th_inst = 0) => call.mode = "FORE"
        /\ (call.th_fore = 0 /\ call.th_inst # 0) => call.mode = "INST"

\* a failed call on a store that already holds observations
C7_Witness ==
    /\ IsInstCall /\ err = "ArgumentError"
    /\ call.pre_list # <<>> /\ _test_list = call.pre_list
    /\ Len(call.chart) >= 1

----------------------------------------------------------------------------
(* Exact fractions <<num, den>>, den >= 0; <<1, 0>> is float('inf') *)

RECURSIVE Gcd(_, _)
Gcd(a, b) == IF b = 0 THEN a ELSE Gcd(b, a % b)

Abs(n) == IF n < 0 THEN -n ELSE n

FNorm(f) ==
    LET g == Gcd(Abs(f[1]), Abs(f[2]))
    IN IF g = 0 THEN f ELSE <<f[1] \div g, f[2] \div g>>

Frac(n) == <<n, 1>>

Inf == <<1, 0>>

FAdd(a, b) == FNorm(<<a[1] * b[2] + b[1] * a[2], a[2] * b[2]>>)

FSub(a, b) == FNorm(<<a[1] * b[2] - b[1] * a[2], a[2] * b[2]>>)

FMul(a, b) == FNorm(<<a[1] * b[1], a[2] * b[2]>>)

\* a / b for b > 0
FDiv(a, b) == FNorm(<<a[1] * b[2], a[2] * b[1]>>)

FLeq(a, b) == a[1] * b[2] <= b[1] * a[2]

FLt(a, b) == a[1] * b[2] < b[1] * a[2]

FEq(a, b) == a[1] * b[2] = b[1] * a[2]

FMin(s) == CHOOSE x \in Range(s) : \A y \in Range(s) : FLeq(x, y)

FMax(s) == CHOOSE x \in Range(s) : \A y \in Range(s) : FLeq(y, x)

----------------------------------------------------------------------------
(* BackTester._trans_pat_to_frpat *)

\* Python's floor division and modulo by a divisor of either sign
PyFloorDiv(a, b) == IF b > 0 THEN a \div b ELSE (-a) \div (-b)

PyMod(a, b) == a - b * PyFloorDiv(a, b)

\* variant (not the code): one segment too many gets the extra step
IntervalsOffByOne(p, q, segments) == [i \in 1..segments |-> IF i - 1 <= q THEN p + 1 ELSE p]

\* line 186
Intervals(p, q, segments) == [i \in 1..segments |-> IF i - 1 < q THEN p + 1 ELSE p]

\* line 192, for the step j of the segment from a to b that has itv steps
PatVal(a, b, j, itv) == FAdd(Frac(a), FDiv(Frac((b - a) * j), Frac(itv)))

\* lines 189-193: the points appended for segments i.., cnt points made so far
RECURSIVE FrPoints(_, _, _, _)
FrPoints(pattern, intervals, i, cnt) ==
    IF i > Len(intervals) THEN <<>>
    ELSE LET itv == intervals[i]
             seg == [j \in 1..Max2(itv, 0) |->
                        <<cnt + j, PatVal(pattern[i], pattern[i + 1], j, itv)>>]
         IN seg \o FrPoints(pattern, intervals, i + 1, cnt + Len(seg))

\* the result: [raises |-> the exception, or "" ; fr_pat |-> the points [index, value]]
_trans_pat_to_frpat(pattern, window_size) ==
    IF Len(pattern) = 1
    THEN [raises |-> "ZeroDivisionError", fr_pat |-> <<>>]      \* line 184: // 0
    ELSE IF Len(pattern) = 0
    THEN [raises |-> "IndexError", fr_pat |-> <<>>]             \* line 187: pattern[0]
    ELSE LET p == PyFloorDiv(window_size - 1, Len(pattern) - 1)
             q == PyMod(window_size - 1, Len(pattern) - 1)
             intervals == Intervals(p, q, Len(pattern) - 1)
         IN [raises |-> "",
             fr_pat |-> <<<<0, Frac(pattern[1])>>>> \o FrPoints(pattern, intervals, 1, 0)]

MaxPat == 3

MaxWin == 5

PatValues == {0, 1, 3}

Patterns == UNION {[1..n -> PatValues] : n \in 0..MaxPat}

\* the pure function on its own: the arguments are drawn, then it is applied
InitFrpat ==
    /\ _test_list = <<>>
    /\ _code_nums = [c \in AllCodes |-> 0]
    /\ err = "ok"
    /\ log = <<>>
    /\ \E pattern \in Patterns, window_size \in 1..MaxWin :
          call = [op |-> "args", pattern |-> pattern, window_size |-> window_size]
    /\ db = NoDb
    /\ _result = NoResult
    /\ _groups = <<>>
    /\ _min = NoResult

ApplyTransPat ==
    /\ call.op = "args"
    /\ LET r == _trans_pat_to_frpat(call.pattern, call.window_size)
       IN /\ call' = [op |-> "_trans_pat_to_frpat", pattern |-> call.pattern,
                      window_size |-> call.window_size, fr_pat |-> r.fr_pat]
          /\ err' = IF r.raises = "" THEN "ok" ELSE r.raises
    /\ UNCHANGED <<_test_list, _code_nums, log, db, _result, _groups, _min>>

NextFrpat == ApplyTransPat

SpecFrpat == InitFrpat /\ [][NextFrpat]_vars

\* the number of unit steps the result spends between pattern[i] and pattern[i+1]:
\* the points of index a+1..b where a, b are the indices at which the running
\* step count reaches the start and the end of segment i
StepsBefore(i, T, L) ==
    LET base == (T - 1) \div (L - 1)
        extra == (T - 1) % (L - 1)
    IN (i - 1) * base + Min2(i - 1, extra)

\* C5: for a pattern of length L >= 2 and targetLength T >= L the result has
\* exactly T points, indexed 0..T-1 in order, starts at pattern[0], ends at
\* pattern[-1], and gives each segment floor((T-1)/(L-1)) steps, one more for the
\* first (T-1) mod (L-1) segments (so the k-th pattern value is met exactly
\* after that many steps).
C5_ResampleShape ==
    (call.op = "_trans_pat_to_frpat" /\ Len(call.pattern) >= 2
        /\ call.window_size >= Len(call.pattern)) =>
        LET T == call.window_size
            L == Len(call.pattern)
            out == call.fr_pat
        IN /\ err = "ok"
           /\ Len(out) = T
           /\ \A k \in 1..T : out[k][1] = k - 1
           /\ out[1][2][1] = call.pattern[1] * out[1][2][2]
           /\ out[T][2][1] = call.pattern[L] * out[T][2][2]
           /\ \A i \in 1..L :
                 LET at == out[StepsBefore(i, T, L) + 1][2]
                 IN at[1] = call.pattern[i] * at[2]
           /\ \A i \in 1..(L - 1) :
                 LET n == StepsBefore(i + 1, T, L) - StepsBefore(i, T, L)
                 IN /\ n \in {(T - 1) \div (L - 1), (T - 1) \div (L - 1) + 1}
                    /\ (n = (T - 1) \div (L - 1) + 1) <=> (i - 1 < (T - 1) % (L - 1))
                    /\ \A j \in 1..n :
                          LET v == out[StepsBefore(i, T, L) + j + 1][2]
                          IN v[1] * n =
                               (call.pattern[i] * n
                                  + (call.pattern[i + 1] - call.pattern[i]) * j) * v[2]

\* three values resampled to five points with an uneven remainder elsewhere
C5_Witness ==
    /\ call.op = "_trans_pat_to_frpat"
    /\ call.pattern = <<0, 3, 1>> /\ call.window_size = 4
    /\ Len(call.fr_pat) = 4
    /\ call.fr_pat[3] = <<2, <<3, 1>>>>
    /\ call.fr_pat[4] = <<3, <<1, 1>>>>

----------------------------------------------------------------------------
(* BackTester.ins_chart_pattern *)

\* a bar of the chart is <<date, open, close, high, low>>; price_opt is a
\* sequence of the letters c, o, h, l

\* _choose_chart_price, lines 170-178, with avg_window left at None: the mean of
\* the chosen fields, indexed by date
ChosenPrice(bar, price_opt) ==
    LET sum == (IF "c" \in Range(price_opt) THEN bar[3] ELSE 0)
                + (IF "o" \in Range(price_opt) THEN bar[2] ELSE 0)
                + (IF "h" \in Range(price_opt) THEN bar[4] ELSE 0)
                + (IF "l" \in Range(price_opt) THEN bar[5] ELSE 0)
    IN FDiv(Frac(sum), Frac(Len(price_opt)))

_choose_chart_price(chart, price_opt) ==
    [i \in 1..Len(chart) |-> [date |-> chart[i][1], price |-> ChosenPrice(chart[i], price_opt)]]

\* line 160: one price of the window, rescaled
Rescale(x, pat_diff, cht_diff, min_val, min_pat) ==
    FAdd(FMul(x, FDiv(Frac(pat_diff), cht_diff)), Frac(min_pat))

\* squared Euclidean distance of two points [index, value]
SqDist(a, b) ==
    LET dv == FSub(a[2], b[2])
    IN FAdd(Frac((a[1] - b[1]) * (a[1] - b[1])), FMul(dv, dv))

FMax2(a, b) == IF FLeq(a, b) THEN b ELSE a

FMin2(a, b) == IF FLeq(a, b) THEN a ELSE b

\* the discrete Frechet distance of two curves, squared: the coupling recurrence
\* over squared point distances (squaring is monotone)
RECURSIVE FrechetSq(_, _, _, _)
FrechetSq(P, Q, i, j) ==
    LET d == SqDist(P[i], Q[j])
    IN IF i = 1 /\ j = 1 THEN d
       ELSE IF j = 1 THEN FMax2(FrechetSq(P, Q, i - 1, 1), d)
       ELSE IF i = 1 THEN FMax2(FrechetSq(P, Q, 1, j - 1), d)
       ELSE FMax2(FMin2(FMin2(FrechetSq(P, Q, i - 1, j), FrechetSq(P, Q, i - 1, j - 1)),
                        FrechetSq(P, Q, i, j - 1)), d)

\* line 162: frdist(fr_cht, fr_pat) < threshold, for threshold > 0
FrdistBelow(fr_cht, fr_pat, threshold) ==
    FLt(FrechetSq(fr_cht, fr_pat, Len(fr_cht), Len(fr_pat)), Frac(threshold * threshold))

\* lines 153-164 for the window that starts at chart position i (1-based):
\* what the filter decided, the rescaled window, and the date to insert if any
Window(prices, i, window_size, pattern, fr_pat, threshold, min_diff_ratio, max_diff_ratio) ==
    LET part_chart == [k \in 1..window_size |-> prices[i + k - 1].price]
        max_val == FMax(part_chart)
        min_val == FMin(part_chart)
        max_pat == SeqMax(pattern)
        min_pat == SeqMin(pattern)
        pat_diff == max_pat - min_pat
        cht_diff == FSub(max_val, min_val)
        cht_diff_ratio == FMul(FDiv(cht_diff, min_val), Frac(100))
        passes == FLeq(min_diff_ratio, cht_diff_ratio) /\ FLeq(cht_diff_ratio, max_diff_ratio)
        finite == cht_diff[1] # 0      \* a flat window divides by 0.0: inf and nan
        fr_cht == [k \in 1..window_size |->
                      <<k - 1, Rescale(part_chart[k], pat_diff, cht_diff, min_val, min_pat)>>]
        match == passes /\ finite /\ FrdistBelow(fr_cht, fr_pat, threshold)
    IN [at |-> i, passes |-> passes, finite |-> finite,
        fr_cht |-> IF passes /\ finite THEN fr_cht ELSE <<>>,
        dates |-> IF match THEN <<prices[i + window_size - 1].date>> ELSE <<>>]

\* lines 152-155: the windows visited, from chart position i (1-based) on
RECURSIVE Windows(_, _, _, _, _, _, _, _, _)
Windows(prices, i, window_size, window_move, pattern, fr_pat, threshold, min_diff_ratio, max_diff_ratio) ==
    IF i > Len(prices) \/ i + window_size - 1 > Len(prices) THEN <<>>
    ELSE <<Window(prices, i, window_size, pattern, fr_pat, threshold,
                  min_diff_ratio, max_diff_ratio)>>
         \o Windows(prices, i + window_move, window_size, window_move, pattern, fr_pat,
                    threshold, min_diff_ratio, max_diff_ratio)

RECURSIVE Flatten(_)
Flatten(ss) == IF ss = <<>> THEN <<>> ELSE Head(ss) \o Flatten(Tail(ss))

ins_chart_pattern(code, pattern, threshold, window_size, window_move, group, price_opt, min_diff_ratio, max_diff_ratio, chart) ==
    LET move == IF window_move = NoneV THEN window_size \div 10 ELSE window_move[1]
        prices == _choose_chart_price(chart, price_opt)
        tr == _trans_pat_to_frpat(pattern, window_size)
        raises == IF tr.raises # "" THEN tr.raises
                  ELSE IF move = 0 THEN "ValueError"     \* line 152: range() step 0
                  ELSE ""
        wins == IF raises # "" THEN <<>>
                ELSE Windows(prices, 1, window_size, move, pattern, tr.fr_pat, threshold,
                             min_diff_ratio, max_diff_ratio)
        dates == Flatten([k \in 1..Len(wins) |-> wins[k].dates])
        st == InsertAll([list |-> _test_list, nums |-> _code_nums, log |-> log],
                        code, dates, group)
    IN /\ Len(log) + Len(chart) <= MaxIns
       /\ call' = [op |-> "ins_chart_pattern", pattern |-> pattern,
                   window_size |-> window_size, windows |-> wins,
                   pre_list |-> _test_list, pre_nums |-> _code_nums]
       /\ err' = IF raises = "" THEN "ok" ELSE raises
       /\ _test_list' = st.list
       /\ _code_nums' = st.nums
       /\ log' = st.log
       /\ UNCHANGED <<db, _result, _groups, _min>>

\* <<open, close, high, low>> of the bars tried
PatBars == {<<10, 10, 10, 10>>, <<10, 20, 20, 10>>}

PatCharts == UNION {[1..n -> PatBars] : n \in 0..MaxChart}

MkPatChart(bars) == [i \in 1..Len(bars) |-> <<i>> \o bars[i]]

PatArgs == {<<>>, <<1>>, <<1, 2>>, <<2, 1>>, <<1, 3, 1>>}

RatioArgs == {<<Frac(0), Inf>>, <<Frac(60), Frac(100)>>}

NextPat ==
    \/ /\ AfterStoreOp
       /\ \E pattern \in PatArgs, threshold \in {2, 3}, window_size \in {2, 3},
             window_move \in {NoneV, Num(1)}, price_opt \in {<<"c">>, <<"c", "o">>},
             ratios \in RatioArgs, bars \in PatCharts :
             ins_chart_pattern(C5930, pattern, threshold, window_size, window_move, "A",
                               price_opt, ratios[1], ratios[2], MkPatChart(bars))
    \/ delete_all

SpecPat == Init /\ [][NextPat]_vars

IsPatCall == call.op = "ins_chart_pattern"

\* C6: with a reference pattern shorter than 2 the call fails with
\* ArgumentError, not with another kind of error, and inserts nothing.
C6_ShortPatternArgumentError ==
    (IsPatCall /\ Len(call.pattern) < 2) =>
        /\ err = "ArgumentError"
        /\ _test_list = call.pre_list
        /\ _code_nums = call.pre_nums

\* what the code does hold to: the call fails and inserts nothing
C6_ShortPatternFails ==
    (IsPatCall /\ Len(call.pattern) < 2) =>
        /\ err \in {"ZeroDivisionError", "IndexError"}
        /\ _test_list = call.pre_list
        /\ _code_nums = call.pre_nums

\* C8: every window that passes the range-ratio filter (and is not flat) is
\* rescaled onto the value range of the pattern: its minimum is min(pattern), its
\* maximum max(pattern).
C8_RescaledOntoPatternRange ==
    (IsPatCall /\ err = "ok") =>
        \A k \in 1..Len(call.windows) :
            LET w == call.windows[k]
                vals == [n \in 1..Len(w.fr_cht) |-> w.fr_cht[n][2]]
            IN (w.passes /\ w.finite) =>
                  /\ FEq(FMin(vals), Frac(SeqMin(call.pattern)))
                  /\ FEq(FMax(vals), Frac(SeqMax(call.pattern)))

\* what the code does hold to: the rescaled window is as wide as the pattern
C8_RescaledWidth ==
    (IsPatCall /\ err = "ok") =>
        \A k \in 1..Len(call.windows) :
            LET w == call.windows[k]
                vals == [n \in 1..Len(w.fr_cht) |-> w.fr_cht[n][2]]
            IN (w.passes /\ w.finite) =>
                  FEq(FSub(FMax(vals), FMin(vals)),
                      Frac(SeqMax(call.pattern) - SeqMin(call.pattern)))

\* a call that found its pattern and inserted
PatInserted == IsPatCall /\ err = "ok" /\ Len(_test_list) > Len(call.pre_list)

----------------------------------------------------------------------------
(* BackTester.back_test *)

\* A cell of the table is <<>> (None, NaN) or <<n>>: a price n, or a ratio n in
\* units of 1/Scale.  A row is the tuple of its columns
\*   grp, code, date, prev_price, price, captured, _1, ..., _N
\* at positions 1..6+N.

NaN == NoneV

ColPrev == 4

ColPrice == 5

ColCaptured == 6

\* the columns _1.._N
DayCols(N) == 7..(6 + N)

MEAN == <<"m", "e", "a", "n">>

G_MEAN == <<"g", "_", "m", "e", "a", "n">>

STDDEV == <<"s", "t", "d", "d", "e", "v">>

MEDIAN == <<"m", "e", "d", "i", "a", "n">>

\* line 98, in the order of the dict
StatNames == <<MEAN, G_MEAN, STDDEV, MEDIAN>>

\* code[:6]
Code6(code) == SubSeq(code, 1, Min2(6, Len(code)))

\* line 90
FuturePrices(d, code, date) == d[<<Code6(code), date>>]

\* variant (not the code): the previous price is tested instead of the capture-day price
CaptureMissingPrev(price) == price[1] = NaN

\* line 91: np.isnan(price[1])
CaptureMissing(price) == price[2] = NaN

\* lines 87-88 over the whole store: the groups in first-seen order
RECURSIVE GroupList(_, _)
GroupList(list, seen) ==
    IF list = <<>> THEN seen
    ELSE GroupList(Tail(list),
                   IF Head(list)[3] \in Range(seen) THEN seen ELSE Append(seen, Head(list)[3]))

\* lines 89-96: the row of one observation, 'captured' set to 0 for now
ObservationRow(obs, price) ==
    <<obs[3], obs[1], obs[2], price[1], price[2], Num(0)>> \o SubSeq(price, 3, Len(price))

\* lines 83-96
RECURSIVE DataRows(_, _)
DataRows(list, d) ==
    IF list = <<>> THEN <<>>
    ELSE LET obs == Head(list)
             price == FuturePrices(d, obs[1], obs[2])
         IN (IF CaptureMissing(price) THEN <<>> ELSE <<ObservationRow(obs, price)>>)
                \o DataRows(Tail(list), d)

\* lines 99-104
StatRows(groups, N) ==
    Flatten([g \in 1..Len(groups) |->
                [k \in 1..Len(StatNames) |->
                    <<groups[g], StatNames[k]>> \o [c \in 1..(N + 4) |-> NaN]]])

\* float division of two cells; NaN if either is NaN
CellDiv(a, b) == IF a = NaN \/ b = NaN THEN NaN ELSE Num((a[1] * Scale) \div b[1])

\* lines 107-109
Normalize(row, N) ==
    [c \in 1..Len(row) |->
        IF c \in DayCols(N) THEN CellDiv(row[c], row[ColPrice])
        ELSE IF c = ColCaptured THEN CellDiv(row[ColPrice], row[ColPrev])
        ELSE row[c]]

\* the values of a column that are not NaN
RECURSIVE NotNan(_)
NotNan(cells) ==
    IF cells = <<>> THEN <<>>
    ELSE (IF Head(cells) = NaN THEN <<>> ELSE <<Head(cells)[1]>>) \o NotNan(Tail(cells))

RECURSIVE InsertSorted(_, _)
InsertSorted(s, x) ==
    IF s = <<>> THEN <<x>>
    ELSE IF x <= Head(s) THEN <<x>> \o s
    ELSE <<Head(s)>> \o InsertSorted(Tail(s), x)

RECURSIVE Sorted(_)
Sorted(s) == IF s = <<>> THEN <<>> ELSE InsertSorted(Sorted(Tail(s)), Head(s))

RECURSIVE Pow(_, _)
Pow(b, e) == IF e = 0 THEN 1 ELSE b * Pow(b, e - 1)

\* the largest r with r^n <= x, for a root known to be at most hi
Root(x, n, hi) == CHOOSE r \in 0..hi : Pow(r, n) <= x /\ Pow(r + 1, n) > x

NanMean(v) == (2 * SeqSum(v) + Len(v)) \div (2 * Len(v))

\* qutils.nangmean: exp(mean(log x)), the Len(v)-th root of the product
NanGMean(v) == Root(SeqProd(v), Len(v), SeqMax(v))

\* np.nanstd, ddof = 0: sqrt(mean(x^2) - mean(x)^2)
NanStd(v) ==
    LET sq == SeqSum([i \in 1..Len(v) |-> v[i] * v[i]])
    IN Root(Len(v) * sq - SeqSum(v) * SeqSum(v), 2, Len(v) * SeqMax(v)) \div Len(v)

NanMedian(v) ==
    LET s == Sorted(v)
        n == Len(s)
    IN IF n % 2 = 1 THEN s[(n + 1) \div 2] ELSE (s[n \div 2] + s[n \div 2 + 1]) \div 2

\* the nan-aware statistic of the cells of one column
StatFunc(stat, cells) ==
    LET v == NotNan(cells)
    IN IF v = <<>> THEN NaN
       ELSE IF stat = MEAN THEN Num(NanMean(v))
       ELSE IF stat = G_MEAN THEN Num(NanGMean(v))
       ELSE IF stat = STDDEV THEN Num(NanStd(v))
       ELSE Num(NanMedian(v))

\* line 114: gc, the rows that enter the statistic of a group
GroupRows(table, group) == SelectSeq(table, LAMBDA r : r[1] = group)

\* lines 114-116 for one group and one statistic
FillStat(table, group, stat, N) ==
    LET rows == GroupRows(table, group)
        value(c) == StatFunc(stat, [k \in 1..Len(rows) |-> rows[k][c]])
    IN [i \in 1..Len(table) |->
          IF table[i][1] = group /\ table[i][2] = stat
          THEN [c \in 1..Len(table[i]) |->
                  IF c \in DayCols(N) \/ c = ColCaptured THEN value(c) ELSE table[i][c]]
          ELSE table[i]]

\* lines 112-116: the statistics k.. of the groups g..
RECURSIVE FillStats(_, _, _, _, _)
FillStats(table, groups, g, k, N) ==
    IF g > Len(groups) THEN table
    ELSE IF k > Len(StatNames) THEN FillStats(table, groups, g + 1, 1, N)
    ELSE FillStats(FillStat(table, groups[g], StatNames[k], N), groups, g, k + 1, N)

\* back_test, lines 74-118: the table and the group list of the testResult
BackTestResult(list, d, N) ==
    LET groups == GroupList(list, <<>>)
        data_list == DataRows(list, d) \o StatRows(groups, N)
        result == [i \in 1..Len(data_list) |-> Normalize(data_list[i], N)]
    IN [result |-> FillStats(result, groups, 1, 1, N), groups |-> groups]

back_test(number_of_days) ==
    /\ _result = NoResult
    /\ LET r == BackTestResult(_test_list, db, number_of_days)
       IN /\ _result' = <<r.result>>
          /\ _groups' = r.groups
    /\ err' = "ok"
    /\ call' = [op |-> "back_test"]
    /\ UNCHANGED <<_test_list, _code_nums, log, db, _min>>

----------------------------------------------------------------------------
(* testResult._get_min_idx_value *)

\* line 277 and the mask gc & ~sc of line 280: the positions of the observation
\* rows of a group
IsStatRow(row) == row[2] \in Range(StatNames)

ObsPositions(table, group) ==
    {i \in 1..Len(table) : table[i][1] = group /\ ~IsStatRow(table[i])}

\* idxmin of one column over the rows at `pos`: the first position of the least
\* value
IdxMin(table, pos, c) ==
    CHOOSE i \in pos :
        \A j \in pos : table[i][c][1] < table[j][c][1]
                          \/ (table[i][c][1] = table[j][c][1] /\ i <= j)

\* variant (not the code): idxmin, the column of the least per-column minimum
PickColumnArgmin(min_sr, cols) ==
    CHOOSE c \in cols :
        \A e \in cols : min_sr[c] < min_sr[e] \/ (min_sr[c] = min_sr[e] /\ c <= e)

\* line 283, min_sr.idxmax(): the first column whose entry of min_sr is largest
PickColumn(min_sr, cols) ==
    CHOOSE c \in cols :
        \A e \in cols : min_sr[c] > min_sr[e] \/ (min_sr[c] = min_sr[e] /\ c <= e)

\* lines 279-284 for one group: <<index label, day column, value>>
MinOfGroup(table, group, N) ==
    LET pos == ObsPositions(table, group)
        min_col_idx == [c \in DayCols(N) |-> IdxMin(table, pos, c)]
        min_sr == [c \in DayCols(N) |-> table[min_col_idx[c]][c][1]]
        min_col == PickColumn(min_sr, DayCols(N))
    IN <<min_col_idx[min_col] - 1, min_col - 6, min_sr[min_col]>>

\* idxmin of a frame without rows raises
MinRaises(table, groups) ==
    \E g \in 1..Len(groups) : ObsPositions(table, groups[g]) = {}

_get_min_idx_value ==
    /\ _result # NoResult
    /\ _min = NoResult
    /\ call' = [op |-> "_get_min_idx_value"]
    /\ IF MinRaises(_result[1], _groups)
       THEN /\ err' = "ValueError"
            /\ UNCHANGED _min
       ELSE /\ err' = "ok"
            /\ _min' = <<[g \in Range(_groups) |->
                            MinOfGroup(_result[1], g, Len(_result[1][1]) - 6)]>>
    /\ UNCHANGED <<_test_list, _code_nums, log, db, _result, _groups>>

----------------------------------------------------------------------------
(* back_test and the minimum search together *)

\* a forward price list: prev_price, price, then on day k the price times
\* (r0 + (k-1) * step) / 10
PriceList(prev, price, r0, step) ==
    <<prev, price>>
        \o [k \in 1..NumDays |->
              IF price = NaN THEN Num(100) ELSE Num((price[1] * (r0 + (k - 1) * step)) \div 10)]

BtCodes == {C5930, C0660, C0270}

BtKeys == {<<c, 1>> : c \in BtCodes}

\* the forward prices of each code, when its capture-day price is on record
Quoted(code) ==
    IF code = C5930 THEN PriceList(Num(100), Num(110), 12, 1)
    ELSE IF code = C0660 THEN PriceList(Num(100), Num(120), 11, -2)
    ELSE PriceList(Num(100), Num(90), 10, 0)

\* the providers tried: any set of codes may lack its capture-day price
Providers ==
    {[k \in BtKeys |-> IF k[1] \in missing THEN PriceList(Num(100), NaN, 10, 0)
                       ELSE Quoted(k[1])] : missing \in SUBSET BtCodes}

InitBT ==
    /\ _test_list = <<>>
    /\ _code_nums = [c \in AllCodes |-> 0]
    /\ err = "ok"
    /\ log = <<>>
    /\ call = NoCall
    /\ db \in Providers
    /\ _result = NoResult
    /\ _groups = <<>>
    /\ _min = NoResult

NextBT ==
    \/ /\ _result = NoResult
       /\ Len(_test_list) < MaxStore
       /\ \E c \in BtCodes, g \in Groups : insert(<<c, 1, g>>)
    \/ back_test(NumDays)
    \/ _get_min_idx_value

SpecBT == InitBT /\ [][NextBT]_vars

Tested == _result # NoResult

Table == _result[1]

Reported == _min # NoResult

MinDict == _min[1]


\* the observation rows of a table, and those of one group
ObsRows(table) == SelectSeq(table, LAMBDA r : r[2] \notin {MEAN, G_MEAN, STDDEV, MEDIAN})

ObsRowsOf(table, group) == SelectSeq(ObsRows(table), LAMBDA r : r[1] = group)

Column(rows, c) == [k \in 1..Len(rows) |-> rows[k][c]]

StatRowOf(table, group, stat) ==
    CHOOSE i \in 1..Len(table) : table[i][1] = group /\ table[i][2] = stat

\* C3: each statistic row of a group holds, in the captured column and in every
\* day column, that statistic of the group's observation rows only; for three
\* observations with captured ratios 1.10, 1.20, 0.90 the median row's captured
\* value is 1.10.
C3_StatsOverObservationsOnly ==
    Tested =>
        /\ \A g \in Range(_groups) : \A k \in 1..Len(StatNames) :
              \A c \in {ColCaptured} \cup DayCols(NumDays) :
                  Table[StatRowOf(Table, g, StatNames[k])][c]
                      = StatFunc(StatNames[k], Column(ObsRowsOf(Table, g), c))
        /\ (Len(_groups) = 1
              /\ Column(ObsRows(Table), ColCaptured)
                    = <<CellDiv(Num(110), Num(100)), CellDiv(Num(120), Num(100)),
                        CellDiv(Num(90), Num(100))>>) =>
              Table[StatRowOf(Table, _groups[1], MEDIAN)][ColCaptured]
                  = CellDiv(Num(110), Num(100))

\* the capture-day price of a stored observation, as the provider d gives it
CapturePrice(d, obs) == d[<<SubSeq(obs[1], 1, 6), obs[2]>>][2]

Present(d, obs) == CapturePrice(d, obs) # <<>>

KeyOf(obs) == <<SubSeq(obs[1], 1, 6), obs[2]>>

RowIdent(rows) == [k \in 1..Len(rows) |-> <<rows[k][1], rows[k][2], rows[k][3]>>]

Without(s, i) == SubSeq(s, 1, i - 1) \o SubSeq(s, i + 1, Len(s))

ColMin(g, c) ==
    CHOOSE v \in {r[c][1] : r \in Range(ObsRowsOf(Table, g))} :
        \A r \in Range(ObsRowsOf(Table, g)) : v <= r[c][1]

C10_EveryGroupHasObservationRow ==
    Tested => \A g \in Range(_groups) : Len(ObsRowsOf(Table, g)) >= 1

====
